---- MODULE Spec2Model ----
(***************************************************************************)
(* Model of the routing / clarification core of the multi-agent system:   *)
(* Config (config.py), UserResolver (api/core/user_resolver.py),          *)
(* Orchestrator (api/core/orchestrator.py), the agents' execute           *)
(* contracts, QueryService and the /query route.                          *)
(*                                                                         *)
(* Python str values are TLA+ strings; "in", lower() and the compiled     *)
(* \b...\b patterns are computed character by character.  Python None is  *)
(* None where the other values are strings and NoneDict where they are    *)
(* dicts.  A call's outcome is Return(v) or Raise(exc, msg).              *)
(***************************************************************************)
EXTENDS Naturals, Sequences, FiniteSets, TLC

\* Largest number of configured users (GITHUB_USERNAME_USER1..n) explored.
MaxUsers == 3

None == "None"
NoneDict == [is_none |-> TRUE]

Return(v) == [kind |-> "return", value |-> v]
Raise(exc, msg) == [kind |-> "raise", exc |-> exc, msg |-> msg]

(***************************************************************************)
(* Python str operations                                                   *)
(***************************************************************************)
UpperChars == "ABCDEFGHIJKLMNOPQRSTUVWXYZ"
LowerChars == "abcdefghijklmnopqrstuvwxyz"
DigitChars == "0123456789"

CharAt(s, i) == SubSeq(s, i, i)

IsCharOf(c, alphabet) == \E i \in 1..Len(alphabet) : CharAt(alphabet, i) = c

\* str.lower() of one character
LowerChar(c) ==
    IF IsCharOf(c, UpperChars)
    THEN CharAt(LowerChars, CHOOSE i \in 1..Len(UpperChars) : CharAt(UpperChars, i) = c)
    ELSE c

\* str.lower()
RECURSIVE Lower(_)
Lower(s) ==
    IF Len(s) = 0 THEN ""
    ELSE LowerChar(CharAt(s, 1)) \o Lower(SubSeq(s, 2, Len(s)))

\* sub in s
Contains(sub, s) ==
    \E i \in 1..(Len(s) + 1) :
        /\ i + Len(sub) - 1 <= Len(s)
        /\ SubSeq(s, i, i + Len(sub) - 1) = sub

\* s.startswith(prefix)
StartsWith(s, prefix) ==
    /\ Len(prefix) <= Len(s)
    /\ SubSeq(s, 1, Len(prefix)) = prefix

\* not s.strip(): every character of s is whitespace
IsBlank(s) == \A i \in 1..Len(s) : CharAt(s, i) \in {" ", "\t", "\n", "\r"}

\* the regex class \w: letters, digits and the underscore
IsWordChar(c) ==
    \/ IsCharOf(c, LowerChars)
    \/ IsCharOf(c, UpperChars)
    \/ IsCharOf(c, DigitChars)
    \/ c = "_"

\* the regex assertion \b before position p of s (p in 1..Len(s)+1): exactly
\* one of the characters on the two sides of the position is a word character
WordBoundary(s, p) ==
    LET before == p > 1 /\ IsWordChar(CharAt(s, p - 1))
        after == p <= Len(s) /\ IsWordChar(CharAt(s, p))
    IN before # after

\* re.compile(rf'\b{re.escape(lit)}\b').search(s) is not None, for a literal
\* of letters, digits and apostrophes (re.escape leaves them as they are
\* or escapes them to the same character)
PatternSearch(lit, s) ==
    \E i \in 1..(Len(s) + 1) :
        /\ i + Len(lit) - 1 <= Len(s)
        /\ SubSeq(s, i, i + Len(lit) - 1) = lit
        /\ WordBoundary(s, i)
        /\ WordBoundary(s, i + Len(lit))

(***************************************************************************)
(* config.py                                                               *)
(***************************************************************************)
\* The environment: GITHUB_USERNAME_USERk, USERk_DISPLAY_NAME and
\* LINEAR_API_KEY_USERk of the k-th user, for as many users as a deployment
\* configures.
EnvUsers ==
    << [username |-> "alice", display_name |-> "Alice", linear_api_key |-> "key1"],
       [username |-> "rob",   display_name |-> "Bob",   linear_api_key |-> "key2"],
       [username |-> "carol", display_name |-> "Carol", linear_api_key |-> None],
       [username |-> "dave",  display_name |-> "Dave",  linear_api_key |-> "key4"],
       [username |-> "eve",   display_name |-> "Eve",   linear_api_key |-> "key5"] >>

\* f'user{user_index}'
UserId(k) == "user" \o CharAt(DigitChars, k + 1)

\* Config.__init__: users user1..usern in insertion order, as the sequence
\* of their UserConfig; the k-th entry is the value of key UserId(k)
LoadUsers(n) == SubSeq(EnvUsers, 1, n)

\* user_id in self.config.users
HasUser(users, user_id) == \E k \in 1..Len(users) : UserId(k) = user_id

\* list(self.users.keys()) as it is formatted into the message
RECURSIVE UserIdList(_)
UserIdList(n) ==
    IF n = 0 THEN ""
    ELSE IF n = 1 THEN "'" \o UserId(1) \o "'"
    ELSE UserIdList(n - 1) \o ", '" \o UserId(n) \o "'"

\* Config.get_user_config
get_user_config(users, user_id) ==
    IF HasUser(users, user_id)
    THEN Return(users[CHOOSE k \in 1..Len(users) : UserId(k) = user_id])
    ELSE Raise("ValueError", "Unknown user ID: " \o user_id
                                 \o ". Available users: ["
                                 \o UserIdList(Len(users)) \o "]")

(***************************************************************************)
(* The inputs explored: the directories a deployment may configure, the    *)
(* clients, and the texts they send.                                       *)
(***************************************************************************)
\* UserResolver reads config.user1 and config.user2 when it is built, so a
\* running server has at least two configured users.
UserCounts == 2..MaxUsers

\* The conversations (HTTP clients) that send queries.
Conversations == {"c1", "c2"}

\* The query texts the clients send.
Queries ==
    { "Show me repositories",
      "Show me Alice's repositories",
      "GitHub",
      "use linear for Bob",
      "3",
      "linear or github",
      "GitHub, not Linear",
      " ",
      "" }

(***************************************************************************)
(* api/core/user_resolver.py                                               *)
(***************************************************************************)
\* UserResolver._build_user_patterns: the literals of the four patterns of
\* user1 and of user2, each compiled between two \b
UserPatterns(u) ==
    << Lower(u.display_name),
       Lower(u.display_name) \o "'s",
       Lower(u.username),
       Lower(u.username) \o "'s" >>

build_user_patterns(users) ==
    [user1 |-> UserPatterns(users[1]), user2 |-> UserPatterns(users[2])]

\* variant: the resolver is built whatever the directory holds
user_resolver_init_lenient(users) == Return(Len(users))

\* UserResolver.__init__: _build_user_patterns reads config.user1 and
\* config.user2, attributes Config sets only for users that exist
user_resolver_init(users) ==
    IF Len(users) = 0
    THEN Raise("AttributeError", "'Config' object has no attribute 'user1'")
    ELSE IF Len(users) = 1
    THEN Raise("AttributeError", "'Config' object has no attribute 'user2'")
    ELSE Return(Len(users))

\* variant: a user is hit or not, however many patterns match
CountMatchesAny(patterns, query_lower) ==
    IF \E i \in 1..Len(patterns) : PatternSearch(patterns[i], query_lower)
    THEN 1 ELSE 0

\* sum(1 for pattern in patterns if pattern.search(query_lower))
CountMatches(patterns, query_lower) ==
    Cardinality({i \in 1..Len(patterns) : PatternSearch(patterns[i], query_lower)})

\* UserResolver.resolve
resolve(users, query) ==
    LET query_lower == Lower(query)
        user_patterns == build_user_patterns(users)
        user1_matches == CountMatches(user_patterns.user1, query_lower)
        user2_matches == CountMatches(user_patterns.user2, query_lower)
    IN  IF user1_matches > 0 /\ user2_matches = 0
        THEN [user_id |-> "user1", user_name |-> users[1].display_name,
              confidence |-> user1_matches,
              reason |-> "Query mentions " \o users[1].display_name]
        ELSE IF user2_matches > 0 /\ user1_matches = 0
        THEN [user_id |-> "user2", user_name |-> users[2].display_name,
              confidence |-> user2_matches,
              reason |-> "Query mentions " \o users[2].display_name]
        ELSE IF user1_matches > 0 /\ user2_matches > 0
        THEN [user_id |-> None, user_name |-> None, confidence |-> 0,
              reason |-> "Multiple users mentioned",
              clarification_needed |-> TRUE]
        ELSE [user_id |-> None, user_name |-> None, confidence |-> 0,
              reason |-> "No user mentioned",
              clarification_needed |-> TRUE]

\* ", ".join(names)
RECURSIVE JoinComma(_)
JoinComma(names) ==
    IF Len(names) = 0 THEN ""
    ELSE IF Len(names) = 1 THEN names[1]
    ELSE names[1] \o ", " \o JoinComma(Tail(names))

\* variant: the question is always built from two names
get_clarification_message_two_names(users, agent_name) ==
    IF Len(users) = 0 THEN "No users configured in the system."
    ELSE IF Len(users) = 1
    THEN "Only " \o users[1].display_name \o " is configured."
    ELSE "Whose " \o agent_name \o " data? " \o users[1].display_name
             \o "'s or " \o users[2].display_name \o "'s?"

\* UserResolver.get_clarification_message
get_clarification_message(users, agent_name) ==
    LET user_names == [k \in 1..Len(users) |-> users[k].display_name]
        n == Len(user_names)
    IN  IF n = 0 THEN "No users configured in the system."
        ELSE IF n = 1 THEN "Only " \o user_names[1] \o " is configured."
        ELSE IF n = 2
        THEN "Whose " \o agent_name \o " data? " \o user_names[1] \o "'s or "
                 \o user_names[2] \o "'s?"
        ELSE "Whose " \o agent_name \o " data? "
                 \o JoinComma(SubSeq(user_names, 1, n - 1))
                 \o ", or " \o user_names[n] \o "?"

\* variant: the words of each slot name the following slot
NumberWordsShifted ==
    << <<"1", "user2">>, <<"first", "user2">>, <<"one", "user2">>,
       <<"2", "user3">>, <<"second", "user3">>, <<"two", "user3">>,
       <<"3", "user4">>, <<"third", "user4">>, <<"three", "user4">>,
       <<"4", "user5">>, <<"fourth", "user5">>, <<"four", "user5">>,
       <<"5", "user1">>, <<"fifth", "user1">>, <<"five", "user1">> >>

\* number_words of resolve_clarification_response, in insertion order
NumberWords ==
    << <<"1", "user1">>, <<"first", "user1">>, <<"one", "user1">>,
       <<"2", "user2">>, <<"second", "user2">>, <<"two", "user2">>,
       <<"3", "user3">>, <<"third", "user3">>, <<"three", "user3">>,
       <<"4", "user4">>, <<"fourth", "user4">>, <<"four", "user4">>,
       <<"5", "user5">>, <<"fifth", "user5">>, <<"five", "user5">> >>

\* variant: the number words are consulted before the names
resolve_clarification_response_numbers_first(users, response) ==
    LET response_lower == Lower(response)
        named == {k \in 1..Len(users) :
                     \/ Contains(Lower(users[k].display_name), response_lower)
                     \/ Contains(Lower(users[k].username), response_lower)}
        numbered == {i \in 1..Len(NumberWords) :
                        /\ Contains(NumberWords[i][1], response_lower)
                        /\ HasUser(users, NumberWords[i][2])}
        Min(S) == CHOOSE x \in S : \A y \in S : x <= y
    IN  IF numbered # {} THEN NumberWords[Min(numbered)][2]
        ELSE IF named # {} THEN UserId(Min(named))
        ELSE None

\* variant: an answer naming several users is not resolved, as in resolve
resolve_clarification_response_ambiguous(users, response) ==
    LET named == {k \in 1..Len(users) :
                     \/ Contains(Lower(users[k].display_name), Lower(response))
                     \/ Contains(Lower(users[k].username), Lower(response))}
        numbered == {i \in 1..Len(NumberWords) :
                        /\ Contains(NumberWords[i][1], Lower(response))
                        /\ HasUser(users, NumberWords[i][2])}
        Min(S) == CHOOSE x \in S : \A y \in S : x <= y
    IN  IF Cardinality(named) > 1 THEN None
        ELSE IF named # {} THEN UserId(Min(named))
        ELSE IF numbered # {} THEN NumberWords[Min(numbered)][2]
        ELSE None

\* UserResolver.resolve_clarification_response
resolve_clarification_response(users, response) ==
    LET response_lower == Lower(response)
        named == {k \in 1..Len(users) :
                     \/ Contains(Lower(users[k].display_name), response_lower)
                     \/ Contains(Lower(users[k].username), response_lower)}
        numbered == {i \in 1..Len(NumberWords) :
                        /\ Contains(NumberWords[i][1], response_lower)
                        /\ HasUser(users, NumberWords[i][2])}
        Min(S) == CHOOSE x \in S : \A y \in S : x <= y
    IN  IF named # {} THEN UserId(Min(named))
        ELSE IF numbered # {} THEN NumberWords[Min(numbered)][2]
        ELSE None

\* resolve, get_clarification_message and resolve_clarification_response
\* evaluated once for every directory and text explored; Resolve,
\* ClarificationMessage and ResolveClarificationResponse look the result up.
ResolveMemo ==
    [n \in UserCounts |-> [q \in Queries |-> resolve(LoadUsers(n), q)]]

Resolve(users, query) == ResolveMemo[Len(users)][query]

ClarificationMessageMemo ==
    [n \in UserCounts |->
        [a \in {"GitHub", "Linear"} |-> get_clarification_message(LoadUsers(n), a)]]

\* variant: the question names nobody
ClarificationMessageNoNames(users, agent_name) ==
    "Whose " \o agent_name \o " data?"

ClarificationMessage(users, agent_name) ==
    ClarificationMessageMemo[Len(users)][agent_name]

ResolveClarificationResponseMemo ==
    [n \in UserCounts |->
        [q \in Queries |-> resolve_clarification_response(LoadUsers(n), q)]]

\* variant: an answer naming nobody is taken as the first user
ResolveClarificationResponseFirstUser(users, response) ==
    IF ResolveClarificationResponseMemo[Len(users)][response] = None
    THEN UserId(1)
    ELSE ResolveClarificationResponseMemo[Len(users)][response]

\* variant: no answer is ever recognised
ResolveClarificationResponseNobody(users, response) == None

\* variant: a number word is taken without looking the user up
ResolveClarificationResponseUnchecked(users, response) ==
    IF ResolveClarificationResponseMemo[Len(users)][response] # None
    THEN ResolveClarificationResponseMemo[Len(users)][response]
    ELSE IF Contains("3", Lower(response)) THEN "user3"
    ELSE None

ResolveClarificationResponse(users, response) ==
    ResolveClarificationResponseMemo[Len(users)][response]

(***************************************************************************)
(* api/core/llm_router.py                                                  *)
(***************************************************************************)
\* What the LLM chain can answer: a parsed RoutingDecision (confidence is
\* kept in hundredths), or LlmError when the call or the parse fails.
LlmError == "error"

RoutingDecisions ==
    [agent : {"github", "linear", "out_of_scope"},
     confidence : {90},
     reasoning : {"llm reasoning"},
     requires_clarification : BOOLEAN,
     clarification_type : {"agent", "user", None}]

LlmOutcomes == RoutingDecisions \cup {[error |-> LlmError]}

\* LLMRouter.route
route(query, llm) ==
    IF llm = [error |-> LlmError]
    THEN Raise("RuntimeError", "LLM routing failed: " \o LlmError)
    ELSE Return([agent |-> IF llm.agent # "out_of_scope" THEN llm.agent ELSE None,
                 confidence |-> llm.confidence,
                 reason |-> llm.reasoning,
                 ambiguous |-> llm.requires_clarification,
                 clarification_type |-> llm.clarification_type])

(***************************************************************************)
(* api/core/agents: the execute contracts                                  *)
(***************************************************************************)
\* Outcome of the agent's external work (LLM tool calls, platform API): it
\* succeeds, or it raises an exception, which may or may not be a ValueError.
ExtOutcomes == {"ok", "error", "value_error"}

\* str(e) of the exception the external work raised
ExtMessage(ext) ==
    IF ext = "value_error" THEN "could not parse output" ELSE "network error"

\* variant: failures are returned as text, as LinearAgent does
GitHubExecuteSoft(users, query, user_id, context, ext) ==
    IF ~HasUser(users, user_id) THEN Return("Unknown user ID: " \o user_id)
    ELSE IF ext # "ok"
    THEN Return("LangChain agent failed to execute query: " \o ExtMessage(ext))
    ELSE Return("GitHub data for: " \o query)

\* LangChainGitHubAgent.execute, with user_configs None (built from_env)
GitHubExecute(users, query, user_id, context, ext) ==
    LET user_config == get_user_config(users, user_id)
    IN  IF user_config.kind = "raise" THEN user_config
        ELSE IF ext = "value_error"
        THEN Raise("ValueError", ExtMessage(ext))
        ELSE IF ext = "error"
        THEN Raise("RuntimeError",
                   "LangChain agent failed to execute query: " \o ExtMessage(ext))
        ELSE Return("GitHub data of " \o user_config.value.display_name
                        \o " for: " \o query)

\* LinearAgent.execute
LinearExecute(users, query, user_id, context, ext) ==
    LET user_config == get_user_config(users, user_id)
    IN  IF user_config.kind = "raise" THEN user_config
        ELSE IF user_config.value.linear_api_key = None
        THEN Return("Linear API key not configured for "
                        \o user_config.value.display_name)
        ELSE IF ext # "ok"
        THEN Return("Error fetching Linear data: " \o ExtMessage(ext))
        ELSE Return("Linear data of " \o user_config.value.display_name
                        \o " for: " \o query)

(***************************************************************************)
(* api/core/orchestrator.py                                                *)
(* Each operator gives the call's result, the pending clarification it     *)
(* leaves, and the collaborator calls it made, in order.                   *)
(***************************************************************************)
NoCalls == [route_calls |-> <<>>, resolve_calls |-> <<>>,
            clarify_calls |-> <<>>, agent_calls |-> <<>>]

\* variant: the two display names are swapped
AgentNameSwapped(agent_type) == IF agent_type = "github" THEN "Linear" ELSE "GitHub"

\* 'GitHub' if agent_type == 'github' else 'Linear'
AgentName(agent_type) == IF agent_type = "github" THEN "GitHub" ELSE "Linear"

\* variant: the test of user_id is inverted
NeedsUserClarificationInverted(user_result) ==
    \/ user_result.user_id # None
    \/ ("clarification_needed" \in DOMAIN user_result
            /\ user_result.clarification_needed)

\* user_id is None or user_result.get('clarification_needed')
NeedsUserClarification(user_result) ==
    \/ user_result.user_id = None
    \/ ("clarification_needed" \in DOMAIN user_result
            /\ user_result.clarification_needed)

\* variant: an answer naming no agent falls through to Linear
agent_choice_default_linear(response) ==
    IF Contains("github", Lower(response)) THEN "github" ELSE "linear"

\* variant: no answer is recognised as naming an agent
agent_choice_nothing(response) == None

\* variant: "linear" is looked for before "github"
agent_choice_linear_first(response) ==
    IF Contains("linear", Lower(response)) THEN "linear"
    ELSE IF Contains("github", Lower(response)) THEN "github"
    ELSE None

\* _handle_clarification_response, the scan of the answer for an agent name
agent_choice(response) ==
    LET response_lower == Lower(response)
    IN  IF Contains("github", response_lower) THEN "github"
        ELSE IF Contains("linear", response_lower) THEN "linear"
        ELSE None

AgentChoiceMemo == [q \in Queries |-> agent_choice(q)]

AgentChoice(response) == AgentChoiceMemo[response]

\* variant: only the empty string is refused
is_empty_query_no_strip(query) == Len(query) = 0

\* not query or not query.strip()
is_empty_query(query) == Len(query) = 0 \/ IsBlank(query)

IsEmptyQueryMemo == [q \in Queries |-> is_empty_query(q)]

IsEmptyQuery(query) == IsEmptyQueryMemo[query]

\* variant: the exception of execute is not caught
soft_error_uncaught(out) == out

\* Orchestrator._execute_agent, the except clause: a raised exception
\* becomes the soft error string
soft_error(out) ==
    IF out.kind = "raise"
    THEN Return("An error occurred while processing your request: " \o out.msg)
    ELSE out

\* One Domain Agent invocation: the arguments of execute and its outcome
AgentCall(agent, query, user_id, context, out) ==
    [agent |-> agent, query |-> query, user_id |-> user_id,
     context |-> context, outcome |-> out]

\* variant: the agent is executed a second time
executed_twice(agent, query, user_id, context, out) ==
    [result |-> soft_error(out),
     agent_calls |-> <<AgentCall(agent, query, user_id, context, out),
                       AgentCall(agent, query, user_id, context, out)>>]

\* Orchestrator._execute_agent, given the outcome of the selected execute
executed(agent, query, user_id, context, out) ==
    [result |-> soft_error(out),
     agent_calls |-> <<AgentCall(agent, query, user_id, context, out)>>]

\* variant: the agent is selected by the decision in the context
execute_agent_by_decision(users, agent_type, query, user_id, routing_result, ext) ==
    IF routing_result.agent = "github"
    THEN executed("github", query, user_id,
                  [action |-> "query", routing_result |-> routing_result],
                  GitHubExecute(users, query, user_id,
                                [action |-> "query", routing_result |-> routing_result], ext))
    ELSE executed("linear", query, user_id,
                  [action |-> "query", routing_result |-> routing_result],
                  LinearExecute(users, query, user_id,
                                [action |-> "query", routing_result |-> routing_result], ext))

\* Orchestrator._execute_agent
execute_agent(users, agent_type, query, user_id, routing_result, ext) ==
    LET context == [action |-> "query", routing_result |-> routing_result]
    IN  IF agent_type = "github"
        THEN executed("github", query, user_id, context,
                      GitHubExecute(users, query, user_id, context, ext))
        ELSE IF agent_type = "linear"
        THEN executed("linear", query, user_id, context,
                      LinearExecute(users, query, user_id, context, ext))
        ELSE [result |-> Return("I cannot answer this question"),
              agent_calls |-> <<>>]

\* variant: the pending clarification is never consulted
HasPendingIgnored(pending) == FALSE

\* if self.pending_clarification:
HasPending(pending) == pending # NoneDict

\* variant: the key is tested for presence, not for its value
AwaitsAgentKey(pending) == "ambiguous_agent" \in DOMAIN pending

\* self.pending_clarification.get('ambiguous_agent')
AwaitsAgent(pending) ==
    "ambiguous_agent" \in DOMAIN pending /\ pending.ambiguous_agent

\* variant: user resolution is re-run on the answer
resolution_text_answer(pending, response) == response

\* _handle_clarification_response: the text user resolution is re-run on
\* once the agent is chosen
resolution_text(pending, response) == pending.original_query

\* variant: the stored decision is replaced by the chosen agent
choose_agent_rerouted(pending, agent_type) ==
    [pending EXCEPT !.agent_type = agent_type,
                    !.ambiguous_agent = FALSE,
                    !.routing_result = [agent |-> agent_type]]

\* self.pending_clarification['agent_type'] = agent_type
\* self.pending_clarification['ambiguous_agent'] = False
choose_agent(pending, agent_type) ==
    [pending EXCEPT !.agent_type = agent_type,
                    !.ambiguous_agent = FALSE]

\* Orchestrator._handle_clarification_response
handle_clarification_response(users, pending, response, ext) ==
    IF ~HasPending(pending)
    THEN [result |-> Return("I cannot answer this question"),
          pending |-> pending, calls |-> NoCalls]
    ELSE IF AwaitsAgent(pending)
    THEN
        LET agent_type == AgentChoice(response)
            chosen == choose_agent(pending, agent_type)
            original_query == resolution_text(pending, response)
            user_result == Resolve(users, original_query)
            user_id == user_result.user_id
            resolved == [NoCalls EXCEPT !.resolve_calls = <<original_query>>]
        IN  IF agent_type = None
            THEN [result |-> Return("I can help with that! Are you asking about GitHub or Linear?"),
                  pending |-> pending, calls |-> NoCalls]
            ELSE IF NeedsUserClarification(user_result)
            THEN [result |-> Return(ClarificationMessage(users, AgentName(agent_type))),
                  pending |-> chosen, calls |-> resolved]
            ELSE
                LET routing_result == [agent |-> agent_type]
                    done == execute_agent(users, agent_type, original_query,
                                          user_id, routing_result, ext)
                IN  [result |-> done.result, pending |-> NoneDict,
                     calls |-> [resolved EXCEPT !.agent_calls = done.agent_calls]]
    ELSE
        LET user_id == ResolveClarificationResponse(users, response)
            clarified == [NoCalls EXCEPT !.clarify_calls = <<response>>]
        IN  IF user_id = None
            THEN [result |-> Return(ClarificationMessage(users, AgentName(pending.agent_type))),
                  pending |-> pending, calls |-> clarified]
            ELSE
                LET done == execute_agent(users, pending.agent_type,
                                          pending.original_query, user_id,
                                          pending.routing_result, ext)
                IN  [result |-> done.result, pending |-> NoneDict,
                     calls |-> [clarified EXCEPT !.agent_calls = done.agent_calls]]

\* variant: the classifier's exception is caught and answered softly
route_raised_caught(routed, pending, calls) ==
    [result |-> Return("An error occurred while processing your request: " \o routed.msg),
     pending |-> pending, calls |-> calls]

\* process_query: an exception of self.router.route is not caught; it
\* leaves process_query before anything is assigned
route_raised(routed, pending, calls) ==
    [result |-> routed, pending |-> pending, calls |-> calls]

\* variant: the ambiguity test comes before the out-of-scope test
fresh_branch_ambiguity_first(routing_result, user_result) ==
    IF routing_result.ambiguous THEN "ask_agent"
    ELSE IF routing_result.agent = None THEN "reject"
    ELSE IF NeedsUserClarification(user_result) THEN "ask_user"
    ELSE "dispatch"

\* variant: an out-of-scope decision is not refused
fresh_branch_no_reject(routing_result, user_result) ==
    IF routing_result.ambiguous THEN "ask_agent"
    ELSE IF NeedsUserClarification(user_result) THEN "ask_user"
    ELSE "dispatch"

\* process_query: which way a fresh query goes, in the order of the tests
fresh_branch(routing_result, user_result) ==
    IF routing_result.agent = None THEN "reject"
    ELSE IF routing_result.ambiguous THEN "ask_agent"
    ELSE IF NeedsUserClarification(user_result) THEN "ask_user"
    ELSE "dispatch"

\* Orchestrator.process_query
process_query(users, pending, query, llm, ext) ==
    IF HasPending(pending)
    THEN handle_clarification_response(users, pending, query, ext)
    ELSE
        LET routed == route(query, llm)
            routing == [NoCalls EXCEPT !.route_calls = <<[query |-> query, result |-> routed]>>]
        IN  IF routed.kind = "raise"
            THEN route_raised(routed, pending, routing)
            ELSE
                LET routing_result == routed.value
                    agent_type == routing_result.agent
                    user_result == Resolve(users, query)
                    user_id == user_result.user_id
                    resolved == [routing EXCEPT !.resolve_calls = <<query>>]
                    branch == fresh_branch(routing_result, user_result)
                IN  IF branch = "reject"
                    THEN [result |-> Return("I cannot answer this question"),
                          pending |-> pending, calls |-> routing]
                    ELSE IF branch = "ask_agent"
                    THEN [result |-> Return("Which platform? GitHub or Linear?"),
                          pending |-> [agent_type |-> None,
                                       original_query |-> query,
                                       routing_result |-> routing_result,
                                       ambiguous_agent |-> TRUE],
                          calls |-> routing]
                    ELSE IF branch = "ask_user"
                    THEN [result |-> Return(ClarificationMessage(users, AgentName(agent_type))),
                          pending |-> [agent_type |-> agent_type,
                                       original_query |-> query,
                                       routing_result |-> routing_result],
                          calls |-> resolved]
                    ELSE
                        LET done == execute_agent(users, agent_type, query,
                                                  user_id, routing_result, ext)
                        IN  [result |-> done.result, pending |-> pending,
                             calls |-> [resolved EXCEPT !.agent_calls = done.agent_calls]]

\* Orchestrator.__init__: it builds the UserResolver, whose failure leaves
\* no Orchestrator; otherwise pending_clarification is None
orchestrator_init(users) ==
    IF user_resolver_init(users).kind = "raise"
    THEN user_resolver_init(users)
    ELSE Return(NoneDict)

\* variant: reset leaves the pending clarification in place
reset_state_keeps(pending) == pending

\* Orchestrator.reset_state
reset_state(pending) == NoneDict

(***************************************************************************)
(* api/services/query_service.py and api/routes/api_routes.py              *)
(***************************************************************************)
\* QueryService.process_query, the try block: r is what
\* Orchestrator.process_query did; any exception becomes a RuntimeError
service_result(r) ==
    [result |-> IF r.result.kind = "raise"
                THEN Raise("RuntimeError",
                           "Failed to process query: " \o r.result.msg)
                ELSE r.result,
     pending |-> r.pending, calls |-> r.calls, orch |-> r.result]

\* QueryService.process_query; orch is the outcome of
\* Orchestrator.process_query, NoneDict when it was not called
service_process_query(users, pending, query, llm, ext) ==
    IF IsEmptyQuery(query)
    THEN [result |-> Raise("ValueError", "Query cannot be empty"),
          pending |-> pending, calls |-> NoCalls, orch |-> NoneDict]
    ELSE service_result(process_query(users, pending, query, llm, ext))

\* variant: every exception is answered as a client error
http_response_client_errors(s) ==
    [status |-> IF s.result.kind = "return" THEN 200 ELSE 400,
     body |-> IF s.result.kind = "return" THEN s.result.value
              ELSE s.result.msg,
     pending |-> s.pending, calls |-> s.calls, orch |-> s.orch]

\* The route process_query: s is what QueryService.process_query did; the
\* response, or the HTTPException an exception is mapped to
http_response(s) ==
    [status |-> IF s.result.kind = "return" THEN 200
                ELSE IF s.result.exc = "ValueError" THEN 400
                ELSE 500,
     body |-> IF s.result.kind = "return" THEN s.result.value
              ELSE IF s.result.exc \in {"ValueError", "RuntimeError"}
              THEN s.result.msg
              ELSE "Internal server error",
     pending |-> s.pending, calls |-> s.calls, orch |-> s.orch]

\* POST /query: QueryRequest validation (min_length = 1), then the route
http_process_query(users, pending, query, llm, ext) ==
    IF Len(query) < 1
    THEN [status |-> 422, body |-> "String should have at least 1 character",
          pending |-> pending, calls |-> NoCalls, orch |-> NoneDict]
    ELSE http_response(service_process_query(users, pending, query, llm, ext))

(***************************************************************************)
(* The running server, once api_routes.get_query_service has created the   *)
(* QueryService: its Orchestrator serves every client of the process.      *)
(***************************************************************************)
VARIABLES
    query_service,          \* api_routes._query_service: 0 for None, else
                            \* the number of the QueryService it refers to
    instances,              \* how many QueryService objects were constructed
    request,                \* each in-flight request: where it is in
                            \* get_query_service, the object it constructed
                            \* and the object it was handed
    config_users,           \* config.users, in insertion order
    pending_clarification,  \* Orchestrator.pending_clarification
    opened,                 \* who opened the pending clarification, the
                            \* question returned and the classifier's
                            \* decision then, and the agent chosen since
    call                    \* the most recent request and what it did

vars == <<config_users, pending_clarification, opened, call,
          query_service, instances, request>>

\* the variables of get_query_service
service_vars == <<query_service, instances, request>>

\* The requests whose dependency resolution may overlap.
Requests == {"r1", "r2", "r3"}

NotStarted == [pc |-> "start", constructed |-> 0, service |-> 0]

NoCall ==
    [op |-> None, client |-> None, query |-> None,
     pending_before |-> NoneDict, opened_before |-> NoneDict,
     orch |-> NoneDict, calls |-> NoCalls, status |-> 0, body |-> None]

\* Config() at import, then Orchestrator.__init__
Init ==
    /\ config_users \in {LoadUsers(n) : n \in UserCounts}
    /\ pending_clarification = NoneDict
    /\ opened = NoneDict
    /\ call = NoCall
    /\ query_service = 1
    /\ instances = 1
    /\ request = [t \in Requests |-> NotStarted]

\* Whether the request reaches the classifier / an agent, so that the
\* outcome of the external call matters
ReachesRouter(query) ==
    /\ pending_clarification = NoneDict
    /\ ~IsEmptyQuery(query)

ReachesAgent(query, llm) ==
    http_process_query(config_users, pending_clarification, query, llm, "ok").calls.agent_calls # <<>>

\* The state after the request of client c: r is what the request did.
Respond(c, query, r) ==
    /\ pending_clarification' = r.pending
    /\ opened' = IF r.pending = NoneDict THEN NoneDict
                 ELSE IF pending_clarification = NoneDict
                 THEN [client |-> c, question |-> r.body,
                       decision |-> r.calls.route_calls[1].result.value,
                       chosen |-> None]
                 ELSE IF AwaitsAgent(pending_clarification)
                         /\ AgentChoice(query) # None
                 THEN [opened EXCEPT !.chosen = AgentChoice(query)]
                 ELSE opened
    /\ call' = [op |-> "query", client |-> c, query |-> query,
                pending_before |-> pending_clarification,
                opened_before |-> opened,
                orch |-> r.orch, calls |-> r.calls,
                status |-> r.status, body |-> r.body]
    /\ UNCHANGED <<config_users, service_vars>>

\* A client posts a query to /query and gets the response.
PostQuery(c, query) ==
    \E llm \in (IF ReachesRouter(query) THEN LlmOutcomes ELSE {[error |-> LlmError]}) :
    \E ext \in (IF ReachesAgent(query, llm) THEN ExtOutcomes ELSE {"ok"}) :
        Respond(c, query,
                http_process_query(config_users, pending_clarification,
                                   query, llm, ext))

\* Orchestrator.reset_state is called.
ResetState ==
    /\ pending_clarification' = reset_state(pending_clarification)
    /\ opened' = NoneDict
    /\ call' = [NoCall EXCEPT !.op = "reset",
                              !.pending_before = pending_clarification,
                              !.opened_before = opened]
    /\ UNCHANGED <<config_users, service_vars>>

Next ==
    \/ \E c \in Conversations, query \in Queries : PostQuery(c, query)
    \/ ResetState

Spec == Init /\ [][Next]_vars

(***************************************************************************)
(* The components on their own: UserResolver.resolve,                      *)
(* UserResolver.resolve_clarification_response and                         *)
(* Orchestrator._execute_agent applied to arguments drawn from the sets    *)
(* below, for every directory.  call records the arguments and the result. *)
(***************************************************************************)
\* Texts given to the resolver.
UnitTexts ==
    { "Show me repositories", "show alice's repos", "ALICE", "rob",
      "Bob's issues", "Alice vs bob", "carol's repos", "Carol and Alice",
      "issues of dave", "robot", "x_alice", "alice2", "bobby",
      "1", "first", "the second one", "two", "3", "third", "4",
      "1 for bob", "Bob, not Alice", "GitHub", "nobody here", "" }

\* User ids handed to a dispatch: user1 .. user5, configured or not.
UnitUserIds == {UserId(k) : k \in 1..Len(EnvUsers)}

UnitAgents == {"github", "linear"}

\* UserResolver.resolve(text)
ResolveCall(text) ==
    /\ call' = [op |-> "resolve", text |-> text,
                result |-> resolve(config_users, text)]
    /\ UNCHANGED <<config_users, pending_clarification, opened, service_vars>>

\* UserResolver.resolve_clarification_response(text)
ClarifyCall(text) ==
    /\ call' = [op |-> "clarify", text |-> text,
                result |-> resolve_clarification_response(config_users, text)]
    /\ UNCHANGED <<config_users, pending_clarification, opened, service_vars>>

\* Orchestrator._execute_agent(agent_type, query, user_id, routing_result)
ExecuteCall(agent_type, query, user_id, ext) ==
    /\ call' = [op |-> "execute", agent_type |-> agent_type, query |-> query,
                user_id |-> user_id, ext |-> ext,
                done |-> execute_agent(config_users, agent_type, query, user_id,
                                       [agent |-> agent_type], ext)]
    /\ UNCHANGED <<config_users, pending_clarification, opened, service_vars>>

\* UserResolver.get_clarification_message(agent_name), the directory
\* holding the first n users of the environment
MessageCall(n, agent_name) ==
    /\ call' = [op |-> "message", users |-> LoadUsers(n),
                agent_name |-> agent_name,
                result |-> get_clarification_message(LoadUsers(n), agent_name)]
    /\ UNCHANGED <<config_users, pending_clarification, opened, service_vars>>

UnitNext ==
    \/ \E text \in UnitTexts : ResolveCall(text)
    \/ \E text \in UnitTexts : ClarifyCall(text)
    \/ \E agent_type \in UnitAgents, user_id \in UnitUserIds, ext \in ExtOutcomes :
           ExecuteCall(agent_type, "Show me repositories", user_id, ext)
    \/ \E n \in 0..MaxUsers, agent_name \in {"GitHub", "Linear"} :
           MessageCall(n, agent_name)

UnitSpec == Init /\ [][UnitNext]_vars

(***************************************************************************)
(* api/routes/api_routes.py: get_query_service, resolved for each request  *)
(* to /query.  It is a plain function, which FastAPI runs on a worker      *)
(* thread, so the calls of overlapping requests interleave statement by    *)
(* statement.                                                              *)
(***************************************************************************)
\* The process has started and no request has arrived: _query_service is
\* None, and the environment configures any number of users.
ServiceInit ==
    /\ config_users \in {LoadUsers(n) : n \in 0..MaxUsers}
    /\ pending_clarification = NoneDict
    /\ opened = NoneDict
    /\ call = NoCall
    /\ query_service = 0
    /\ instances = 0
    /\ request = [t \in Requests |-> NotStarted]

\* if _query_service is None:
CheckService(t) ==
    /\ request[t].pc = "start"
    /\ request' = [request EXCEPT ![t].pc =
                       IF query_service = 0 THEN "construct" ELSE "return"]
    /\ UNCHANGED <<config_users, pending_clarification, opened, call,
                   query_service, instances>>

\* QueryService(): a new service with a new Orchestrator; when
\* Orchestrator() raises, the exception leaves get_query_service and the
\* request fails without a service
ConstructService(t) ==
    /\ request[t].pc = "construct"
    /\ IF orchestrator_init(config_users).kind = "raise"
       THEN /\ request' = [request EXCEPT ![t].pc = "failed"]
            /\ UNCHANGED instances
       ELSE /\ instances' = instances + 1
            /\ request' = [request EXCEPT ![t].pc = "assign",
                                          ![t].constructed = instances + 1]
    /\ UNCHANGED <<config_users, pending_clarification, opened, call,
                   query_service>>

\* _query_service = <the new QueryService>
AssignService(t) ==
    /\ request[t].pc = "assign"
    /\ query_service' = request[t].constructed
    /\ request' = [request EXCEPT ![t].pc = "return"]
    /\ UNCHANGED <<config_users, pending_clarification, opened, call,
                   instances>>

\* return _query_service: the request is served by the object it is handed
ReturnService(t) ==
    /\ request[t].pc = "return"
    /\ request' = [request EXCEPT ![t].pc = "done",
                                  ![t].service = query_service]
    /\ UNCHANGED <<config_users, pending_clarification, opened, call,
                   query_service, instances>>

ServiceNext ==
    \E t \in Requests :
        \/ CheckService(t)
        \/ ConstructService(t)
        \/ AssignService(t)
        \/ ReturnService(t)

ServiceSpec == ServiceInit /\ [][ServiceNext]_vars

(***************************************************************************)
(* Properties.  They read the record of the most recent request: the       *)
(* pending clarification before it, the collaborator calls it made and     *)
(* what Orchestrator.process_query returned or raised.                     *)
(***************************************************************************)
\* The most recent request reached Orchestrator.process_query.
OrchCalled == call.op = "query" /\ call.orch # NoneDict

\* ... with no pending clarification / with one.
FreshQuery == OrchCalled /\ call.pending_before = NoneDict
AnswerCall == OrchCalled /\ call.pending_before # NoneDict

\* The classifier returned a decision in the most recent request.
Routed ==
    /\ call.calls.route_calls # <<>>
    /\ call.calls.route_calls[1].result.kind = "return"

Decision == call.calls.route_calls[1].result.value

InScope == FreshQuery /\ Routed /\ Decision.agent # None

\* text contains the agent's name, case-insensitively
Names(agent, text) == Contains(agent, Lower(text))

RejectionMessage == "I cannot answer this question"
PlatformQuestion == "Which platform? GitHub or Linear?"
PlatformReprompt == "I can help with that! Are you asking about GitHub or Linear?"
SoftErrorPrefix == "An error occurred while processing your request: "

\* The most recent request opened an agent clarification for its text.
AgentClarificationOpened ==
    /\ pending_clarification = [agent_type |-> None,
                                original_query |-> call.query,
                                routing_result |-> Decision,
                                ambiguous_agent |-> TRUE]
    /\ call.orch = Return(PlatformQuestion)
    /\ call.calls.agent_calls = <<>>

\* C1: a process_query call made while a clarification is pending never
\* invokes the classifier, and the pending record it leaves, if any, is
\* still the one of the earlier query (its original query and routing
\* result), not one created from the answer text.
C1_PendingTextIsAnAnswer ==
    AnswerCall =>
        /\ call.calls.route_calls = <<>>
        /\ pending_clarification # NoneDict =>
            /\ pending_clarification.original_query
                   = call.pending_before.original_query
            /\ pending_clarification.routing_result
                   = call.pending_before.routing_result

C1_Witness ==
    /\ AnswerCall
    /\ pending_clarification # NoneDict
    /\ call.query # call.pending_before.original_query

\* C2: a query answers a pending clarification only when it comes from the
\* conversation whose query opened that clarification.
C2_ConversationsIsolated ==
    AnswerCall => call.client = call.opened_before.client

\* C3: when the classifier's route call raises, the exception leaves
\* process_query, the pending clarification was none and stays none, and no
\* resolver method and no Domain Agent is called.
RouteFailed ==
    /\ call.op = "query"
    /\ call.calls.route_calls # <<>>
    /\ call.calls.route_calls[1].result.kind = "raise"

C3_ClassifierFailurePropagates ==
    RouteFailed =>
        /\ call.orch = call.calls.route_calls[1].result
        /\ call.pending_before = NoneDict
        /\ pending_clarification = NoneDict
        /\ call.calls.resolve_calls = <<>>
        /\ call.calls.clarify_calls = <<>>
        /\ call.calls.agent_calls = <<>>

C3_Witness == RouteFailed /\ call.orch.kind = "raise"

\* C4: when the Domain Agent's execute raises, process_query returns a
\* string that begins with the soft error prefix and leaves no pending
\* clarification.
AgentRaised ==
    /\ call.op = "query"
    /\ call.calls.agent_calls # <<>>
    /\ call.calls.agent_calls[1].outcome.kind = "raise"

C4_AgentFailureIsSoft ==
    AgentRaised =>
        /\ call.orch.kind = "return"
        /\ StartsWith(call.orch.value, SoftErrorPrefix)
        /\ pending_clarification = NoneDict

\* the three dispatch paths on which execute raised
C4_WitnessDirect == AgentRaised /\ FreshQuery
C4_WitnessAfterAgentChoice == AgentRaised /\ AnswerCall /\ AwaitsAgent(call.pending_before)
C4_Witness == AgentRaised /\ AnswerCall /\ ~AwaitsAgent(call.pending_before)

\* C5: a fresh query the classifier puts out of scope gets the fixed
\* rejection, leaves the pending clarification none and reaches neither the
\* resolver nor an agent, whatever the ambiguous flag and clarification type.
OutOfScope == FreshQuery /\ Routed /\ Decision.agent = None

C5_OutOfScopeRejected ==
    OutOfScope =>
        /\ call.orch = Return(RejectionMessage)
        /\ pending_clarification = NoneDict
        /\ call.calls.resolve_calls = <<>>
        /\ call.calls.clarify_calls = <<>>
        /\ call.calls.agent_calls = <<>>

C5_Witness ==
    OutOfScope /\ Decision.ambiguous /\ Decision.clarification_type = "agent"

\* C6: a fresh in-scope query opens an agent clarification exactly when the
\* decision is ambiguous with clarification type agent; an ambiguous
\* decision of another clarification type goes on to user resolution.
C6_AgentClarificationExactly ==
    InScope =>
        /\ AgentClarificationOpened
               <=> (Decision.ambiguous /\ Decision.clarification_type = "agent")
        /\ (Decision.ambiguous /\ Decision.clarification_type # "agent")
               => call.calls.resolve_calls = <<call.query>>

\* C7: a fresh in-scope query that opens no agent clarification and whose
\* text resolves to no user stores the pending record of a user
\* clarification (the decision's agent, the text, the decision), returns
\* the clarification message for that agent's display name and calls no
\* Domain Agent.
C7_Applies ==
    /\ InScope
    /\ ~AgentClarificationOpened
    /\ resolve(config_users, call.query).user_id = None

C7_UserClarificationOpened ==
    C7_Applies =>
        /\ pending_clarification = [agent_type |-> Decision.agent,
                                    original_query |-> call.query,
                                    routing_result |-> Decision]
        /\ ~AwaitsAgent(pending_clarification)
        /\ call.orch = Return(get_clarification_message(config_users,
                                  IF Decision.agent = "github"
                                  THEN "GitHub" ELSE "Linear"))
        /\ (Len(config_users) = 2 /\ Decision.agent = "github")
               => call.orch.value = "Whose GitHub data? Alice's or Bob's?"
        /\ call.calls.agent_calls = <<>>

C7_Witness == C7_Applies /\ Decision.agent = "linear"

\* C8: a fresh in-scope, non-ambiguous query whose text resolves to one
\* user is dispatched in the same call to the Domain Agent the decision
\* names, with that user id and the text as sent; the response is the
\* agent's (or the soft error), and the pending clarification stays none.
C8_Applies ==
    /\ InScope
    /\ ~Decision.ambiguous
    /\ resolve(config_users, call.query).user_id # None

C8_DirectDispatch ==
    C8_Applies =>
        /\ Len(call.calls.agent_calls) = 1
        /\ call.calls.agent_calls[1].agent = Decision.agent
        /\ call.calls.agent_calls[1].user_id
               = resolve(config_users, call.query).user_id
        /\ call.calls.agent_calls[1].query = call.query
        /\ call.query = "Show me Alice's repositories"
               => call.calls.agent_calls[1].user_id = "user1"
        /\ call.calls.agent_calls[1].outcome.kind = "return"
               => call.orch = call.calls.agent_calls[1].outcome
        /\ call.calls.agent_calls[1].outcome.kind = "raise"
               => StartsWith(call.orch.value, SoftErrorPrefix)
        /\ call.calls.clarify_calls = <<>>
        /\ pending_clarification = NoneDict

C8_Witness ==
    /\ C8_Applies
    /\ call.query = "Show me Alice's repositories"
    /\ Decision.agent = "github"
    /\ call.calls.agent_calls[1].outcome.kind = "return"

\* C9 as stated: while an agent choice is awaited, an answer naming no
\* agent is answered with the very question returned when the
\* clarification was opened; the pending record is unchanged and nothing
\* is dispatched.
NoAgentAnswer ==
    /\ AnswerCall
    /\ AwaitsAgent(call.pending_before)
    /\ ~Names("github", call.query)
    /\ ~Names("linear", call.query)

C9_SameQuestionRepeated ==
    NoAgentAnswer =>
        /\ call.orch = Return(call.opened_before.question)
        /\ pending_clarification = call.pending_before
        /\ call.calls.agent_calls = <<>>

\* C9 amended: such an answer is answered with the re-prompt "I can help
\* with that! Are you asking about GitHub or Linear?", which is not the
\* question "Which platform? GitHub or Linear?" returned at the opening;
\* the pending record is unchanged and nothing is dispatched.
C9_RepromptKeepsPending ==
    NoAgentAnswer =>
        /\ call.orch = Return(PlatformReprompt)
        /\ call.opened_before.question = PlatformQuestion
        /\ pending_clarification = call.pending_before
        /\ call.calls.agent_calls = <<>>

C9_Witness == NoAgentAnswer /\ call.status = 200

\* C10: while an agent choice is awaited, an answer naming an agent re-runs
\* user resolution on the stored original query only.  If that resolves to
\* no user the same record is kept with the chosen agent_type, now awaiting
\* a user choice, and the user question for the chosen agent is returned;
\* otherwise the record is cleared and the original query is dispatched to
\* the chosen agent with the resolved user.
AgentAnswer ==
    /\ AnswerCall
    /\ AwaitsAgent(call.pending_before)
    /\ (Names("github", call.query) \/ Names("linear", call.query))

C10_AgentAnswerResolvesOriginal ==
    AgentAnswer =>
        LET chosen == IF Names("github", call.query) THEN "github" ELSE "linear"
            original == call.pending_before.original_query
            user == resolve(config_users, original).user_id
        IN  /\ call.calls.resolve_calls = <<original>>
            /\ call.calls.clarify_calls = <<>>
            /\ IF user = None
               THEN /\ pending_clarification
                          = [call.pending_before EXCEPT !.agent_type = chosen,
                                                        !.ambiguous_agent = FALSE]
                    /\ call.orch = Return(get_clarification_message(config_users,
                                              IF chosen = "github"
                                              THEN "GitHub" ELSE "Linear"))
                    /\ call.calls.agent_calls = <<>>
               ELSE /\ pending_clarification = NoneDict
                    /\ Len(call.calls.agent_calls) = 1
                    /\ call.calls.agent_calls[1].agent = chosen
                    /\ call.calls.agent_calls[1].query = original
                    /\ call.calls.agent_calls[1].user_id = user

\* the answer names a user, the original query none: the user is not used
C10_Witness ==
    /\ AgentAnswer
    /\ resolve(config_users, call.query).user_id = "user2"
    /\ resolve(config_users, call.pending_before.original_query).user_id = None
    /\ pending_clarification # NoneDict
    /\ pending_clarification.agent_type = "linear"

\* The most recent request answered a pending user clarification.
UserAnswer == AnswerCall /\ ~AwaitsAgent(call.pending_before)

\* display name of the agent of a pending record
StoredAgentName(pending) ==
    IF pending.agent_type = "github" THEN "GitHub" ELSE "Linear"

\* C11: while a user choice is awaited, an answer that
\* resolve_clarification_response maps to nobody is answered with the
\* clarification question of the stored agent; the pending record is
\* unchanged, and neither a Domain Agent nor the classifier is called.
C11_Applies ==
    /\ UserAnswer
    /\ resolve_clarification_response(config_users, call.query) = None

C11_UserRepromptKeepsPending ==
    C11_Applies =>
        /\ call.orch = Return(get_clarification_message(config_users,
                                  StoredAgentName(call.pending_before)))
        /\ pending_clarification = call.pending_before
        /\ call.calls.clarify_calls = <<call.query>>
        /\ call.calls.agent_calls = <<>>
        /\ call.calls.route_calls = <<>>
        /\ call.calls.resolve_calls = <<>>

C11_Witness ==
    /\ C11_Applies
    /\ call.pending_before.agent_type = "linear"
    /\ call.query = "GitHub"

\* C12: while a user choice is awaited, an answer that
\* resolve_clarification_response maps to a user clears the pending record
\* and dispatches the stored original query, not the answer text, for that
\* user to the stored agent.
C12_Applies ==
    /\ UserAnswer
    /\ resolve_clarification_response(config_users, call.query) # None

C12_UserAnswerDispatchesOriginal ==
    C12_Applies =>
        /\ pending_clarification = NoneDict
        /\ call.calls.clarify_calls = <<call.query>>
        /\ call.calls.route_calls = <<>>
        /\ Len(call.calls.agent_calls) = 1
        /\ call.calls.agent_calls[1].query = call.pending_before.original_query
        /\ call.calls.agent_calls[1].user_id
               = resolve_clarification_response(config_users, call.query)
        /\ call.calls.agent_calls[1].agent = call.pending_before.agent_type
        /\ call.calls.agent_calls[1].outcome.kind = "return"
               => call.orch = call.calls.agent_calls[1].outcome

\* "Show me repositories" was asked of GitHub; the answer names Alice
C12_Witness ==
    /\ C12_Applies
    /\ call.pending_before.original_query = "Show me repositories"
    /\ call.pending_before.agent_type = "github"
    /\ call.query = "Show me Alice's repositories"
    /\ call.calls.agent_calls[1].user_id = "user1"
    /\ call.calls.agent_calls[1].query = "Show me repositories"

\* The most recent request dispatched a query that had been waiting in a
\* pending clarification.
ResumedDispatch == AnswerCall /\ call.calls.agent_calls # <<>>

\* ... one whose clarification was opened with the platform question.
AgentClarifiedDispatch ==
    ResumedDispatch /\ call.opened_before.question = PlatformQuestion

\* The agent the platform question was answered with: named in this
\* request's text if the agent choice was still awaited, else chosen earlier.
AnsweredAgent ==
    IF call.opened_before.chosen # None THEN call.opened_before.chosen
    ELSE IF Names("github", call.query) THEN "github"
    ELSE IF Names("linear", call.query) THEN "linear"
    ELSE None

\* C13: once the platform question is answered with agent X, the dispatch
\* of the original query, in the same turn or after a further user
\* clarification, invokes X's Domain Agent, also when the classifier's
\* decision named another agent.
C13_ChosenAgentDispatched ==
    AgentClarifiedDispatch =>
        /\ AnsweredAgent # None
        /\ Len(call.calls.agent_calls) = 1
        /\ call.calls.agent_calls[1].agent = AnsweredAgent
        /\ call.calls.agent_calls[1].query = call.pending_before.original_query

\* dispatched after a further user clarification, against the decision
C13_Witness ==
    /\ AgentClarifiedDispatch
    /\ call.opened_before.chosen = "linear"
    /\ call.opened_before.decision.agent = "github"
    /\ call.calls.agent_calls[1].agent = "linear"

\* dispatched in the turn of the agent answer, against the decision
C13_WitnessSameTurn ==
    /\ AgentClarifiedDispatch
    /\ call.opened_before.chosen = None
    /\ call.opened_before.decision.agent = "github"
    /\ call.calls.agent_calls[1].agent = "linear"

\* C14: whenever a query stored in a pending clarification is dispatched,
\* the routing_result in the context given to the Domain Agent is the
\* decision the classifier returned for the original query.
C14_StoredDecisionReused ==
    ResumedDispatch =>
        call.calls.agent_calls[1].context.routing_result
            = call.opened_before.decision

\* C15: in every dispatch the Domain Agent invoked is the one named by the
\* agent field of the routing decision in the dispatch context.
C15_AgentIsContextAgent ==
    (OrchCalled /\ call.calls.agent_calls # <<>>) =>
        call.calls.agent_calls[1].agent
            = call.calls.agent_calls[1].context.routing_result.agent

\* C16: reset_state, called in any state, leaves the pending clarification
\* none, and the next process_query call takes the fresh-query branch: the
\* classifier is invoked on that call's text.
ResetStep == call'.op = "reset"

QueryStepAfterReset ==
    /\ call.op = "reset"
    /\ call'.op = "query"
    /\ call'.orch # NoneDict

ClassifierInvokedOnText ==
    /\ Len(call'.calls.route_calls) = 1
    /\ call'.calls.route_calls[1].query = call'.query
    /\ call'.pending_before = NoneDict

C16_ResetThenFresh ==
    [][ /\ ResetStep => pending_clarification' = NoneDict
        /\ QueryStepAfterReset => ClassifierInvokedOnText ]_vars

\* reset was called while an agent choice, a user choice, nothing was awaited
C16_Witness == call.op = "reset" /\ AwaitsAgent(call.pending_before)

C16_WitnessAwaitingUser ==
    /\ call.op = "reset"
    /\ call.pending_before # NoneDict
    /\ ~AwaitsAgent(call.pending_before)

C16_WitnessIdle == call.op = "reset" /\ call.pending_before = NoneDict

\* C23: an empty or whitespace-only query is refused with a client error
\* before the Orchestrator is reached: process_query is not called and the
\* pending clarification is unchanged, also while one is pending.
BlankQuery ==
    /\ call.op = "query"
    /\ (Len(call.query) = 0 \/ IsBlank(call.query))

C23_BlankQueryRefused ==
    BlankQuery =>
        /\ call.orch = NoneDict
        /\ call.calls = NoCalls
        /\ call.status \in {400, 422}
        /\ pending_clarification = call.pending_before

C23_Witness ==
    /\ BlankQuery
    /\ call.query = " "
    /\ call.status = 400
    /\ AwaitsAgent(call.pending_before)

C23_WitnessEmpty ==
    /\ BlankQuery
    /\ call.query = ""
    /\ call.status = 422
    /\ call.pending_before # NoneDict

\* C24: at the HTTP boundary a classifier failure is a 5xx response, a
\* Domain Agent failure is a 200 response carrying the soft error string,
\* and a response that asks for an agent or a user is a 200 response
\* carrying a question.
AsksForClarification == OrchCalled /\ pending_clarification # NoneDict

C24_HttpStatusPolicy ==
    /\ RouteFailed => call.status = 500
    /\ AgentRaised =>
           /\ call.status = 200
           /\ StartsWith(call.body, SoftErrorPrefix)
    /\ AsksForClarification =>
           /\ call.status = 200
           /\ Contains("?", call.body)

C24_Witness == RouteFailed /\ call.status = 500

C24_WitnessAgentFailure == AgentRaised /\ call.status = 200

C24_WitnessQuestion ==
    /\ AsksForClarification
    /\ call.status = 200
    /\ call.body = PlatformQuestion

\* The three states of the orchestrator, read off the pending clarification.
Idle == pending_clarification = NoneDict

AwaitingAgentClarification ==
    /\ DOMAIN pending_clarification
           = {"agent_type", "original_query", "routing_result", "ambiguous_agent"}
    /\ pending_clarification.ambiguous_agent = TRUE

AwaitingUserClarification ==
    /\ ~Idle
    /\ \/ DOMAIN pending_clarification
              = {"agent_type", "original_query", "routing_result"}
       \/ /\ DOMAIN pending_clarification
                 = {"agent_type", "original_query", "routing_result",
                    "ambiguous_agent"}
          /\ pending_clarification.ambiguous_agent = FALSE

\* The pending clarification left by POST /query with text q when the
\* record was p (the agent's external work succeeding).
PendingAfter(p, q) ==
    http_process_query(config_users, p, q, [error |-> LlmError], "ok").pending

\* Some answer, or some two answers in a row, clear the record p.
OneStepToIdle(p) == \E q \in Queries : PendingAfter(p, q) = NoneDict

TwoStepsToIdle(p) ==
    \E q \in Queries : OneStepToIdle(PendingAfter(p, q))

\* C25: the orchestrator starts in Idle, every reachable state is Idle,
\* AwaitingAgentClarification or AwaitingUserClarification, and none is
\* terminal: from every reachable state some queries lead back to Idle.
C25_ThreeStatesNoneTerminal ==
    /\ call = NoCall => Idle
    /\ Idle \/ AwaitingAgentClarification \/ AwaitingUserClarification
    /\ \/ Idle
       \/ OneStepToIdle(pending_clarification)
       \/ TwoStepsToIdle(pending_clarification)

\* an agent choice is awaited and no single answer leads back to Idle
C25_Witness ==
    /\ AwaitingAgentClarification
    /\ ~OneStepToIdle(pending_clarification)
    /\ TwoStepsToIdle(pending_clarification)

\* The most recent request reached the classifier, was routed to an
\* in-scope agent, and its text identifies no configured user (as a whole
\* word, case-insensitively).
RoutedNamingNobody ==
    /\ InScope
    /\ \A k \in 1..Len(config_users) :
           /\ ~PatternSearch(Lower(config_users[k].display_name), Lower(call.query))
           /\ ~PatternSearch(Lower(config_users[k].username), Lower(call.query))

NamesSomeUser(text) ==
    \E k \in 1..Len(config_users) : Contains(config_users[k].display_name, text)

NamesEveryUser(text) ==
    \A k \in 1..Len(config_users) : Contains(config_users[k].display_name, text)

C26_WitnessAmbiguous ==
    /\ RoutedNamingNobody
    /\ Decision.ambiguous
    /\ call.body = PlatformQuestion

\* The most recent request answered a pending clarification (whether or not
\* the text got as far as the Orchestrator).
Answered == call.op = "query" /\ call.pending_before # NoneDict

\* The record p asks for the platform / for the user.
AgentQuestion(p) ==
    /\ p # NoneDict
    /\ "ambiguous_agent" \in DOMAIN p
    /\ p.ambiguous_agent = TRUE

UserQuestion(p) == p # NoneDict /\ ~AgentQuestion(p)

\* The answer matches the question that was pending.
MatchingAnswer ==
    /\ Answered
    /\ IF AgentQuestion(call.pending_before)
       THEN Names("github", call.query) \/ Names("linear", call.query)
       ELSE ResolveClarificationResponseMemo[Len(config_users)][call.query] # None

Dispatched == Len(call.calls.agent_calls) = 1

\* C29: with a clarification pending, an answer that does not match leaves
\* the pending question as it was and dispatches nothing; a matching user
\* choice dispatches and clears the record; a matching agent choice either
\* dispatches and clears the record or leaves the user question pending;
\* the user question is never followed by the agent question, so a dispatch
\* is reached after at most two matching answers.
C29_DispatchWithinTwoMatchingAnswers ==
    Answered =>
        /\ ~MatchingAnswer =>
               /\ pending_clarification = call.pending_before
               /\ opened = call.opened_before
               /\ call.calls.agent_calls = <<>>
        /\ (MatchingAnswer /\ UserQuestion(call.pending_before)) =>
               /\ Dispatched
               /\ pending_clarification = NoneDict
        /\ (MatchingAnswer /\ AgentQuestion(call.pending_before)) =>
               \/ Dispatched /\ pending_clarification = NoneDict
               \/ /\ call.calls.agent_calls = <<>>
                  /\ UserQuestion(pending_clarification)
                  /\ opened.chosen # None
        /\ AgentQuestion(call.pending_before) => call.opened_before.chosen = None

\* the platform was chosen, then the user: the second matching answer
\* dispatches
C29_Witness ==
    /\ MatchingAnswer
    /\ UserQuestion(call.pending_before)
    /\ call.opened_before.chosen # None
    /\ Dispatched
    /\ pending_clarification = NoneDict

C29_WitnessNonMatching ==
    /\ Answered
    /\ ~MatchingAnswer
    /\ call.opened_before.chosen # None
    /\ pending_clarification = call.pending_before

C29_WitnessOneAnswer ==
    /\ MatchingAnswer
    /\ AgentQuestion(call.pending_before)
    /\ Dispatched

\* C30: a pending record that awaits an agent choice has agent_type none;
\* one that awaits a user choice has agent_type "github" or "linear".
C30_AgentTypeMatchesQuestion ==
    /\ AwaitingAgentClarification => pending_clarification.agent_type = None
    /\ AwaitingUserClarification =>
           pending_clarification.agent_type \in {"github", "linear"}

C30_Witness ==
    /\ AwaitingUserClarification
    /\ pending_clarification.agent_type = "linear"
    /\ "ambiguous_agent" \in DOMAIN pending_clarification

C30_WitnessAgent ==
    /\ AwaitingAgentClarification
    /\ pending_clarification.agent_type = None

C30_WitnessFresh ==
    /\ AwaitingUserClarification
    /\ "ambiguous_agent" \notin DOMAIN pending_clarification
    /\ pending_clarification.agent_type = "github"

\* The most recent request found a pending clarification and left one.
StillPending == Answered /\ pending_clarification # NoneDict

\* C31: while a clarification is pending its original_query and
\* routing_result stay as they were created, whatever is answered; the
\* record changes only on a matching agent answer, and then only in
\* agent_type and the awaiting flag.
C31_PendingFrame ==
    /\ StillPending =>
           /\ pending_clarification.original_query
                  = call.pending_before.original_query
           /\ pending_clarification.routing_result
                  = call.pending_before.routing_result
           /\ pending_clarification # call.pending_before =>
                  /\ MatchingAnswer
                  /\ AgentQuestion(call.pending_before)
                  /\ pending_clarification
                         = [call.pending_before
                               EXCEPT !.agent_type = AgentChoice(call.query),
                                      !.ambiguous_agent = FALSE]
    /\ ~Idle => pending_clarification.routing_result = opened.decision

\* the platform was chosen and the user is now asked: the decision and the
\* original text are still those of the opening request
C31_Witness ==
    /\ StillPending
    /\ pending_clarification # call.pending_before
    /\ pending_clarification.agent_type = "linear"
    /\ pending_clarification.routing_result.agent = "github"
    /\ pending_clarification.original_query = "Show me repositories"

C31_WitnessUnchanged ==
    /\ StillPending
    /\ call.opened_before.chosen # None
    /\ pending_clarification = call.pending_before

\* C32: a process_query call invokes the classifier at most once and a
\* Domain Agent at most once, and invokes a Domain Agent only when it
\* returns with no pending clarification.
C32_OneRouteOneDispatch ==
    OrchCalled =>
        /\ Len(call.calls.route_calls) <= 1
        /\ Len(call.calls.agent_calls) <= 1
        /\ pending_clarification # NoneDict => call.calls.agent_calls = <<>>

\* a fresh query that is classified and dispatched in the same call
C32_Witness ==
    /\ FreshQuery
    /\ Len(call.calls.route_calls) = 1
    /\ Len(call.calls.agent_calls) = 1
    /\ pending_clarification = NoneDict

C32_WitnessCreates ==
    /\ FreshQuery
    /\ pending_clarification # NoneDict
    /\ call.calls.agent_calls = <<>>

C32_WitnessKeeps ==
    /\ AnswerCall
    /\ pending_clarification # NoneDict
    /\ call.calls.agent_calls = <<>>

\* C33: every user id handed to a Domain Agent is the id of a configured
\* user, whether the dispatch is direct, follows an agent choice or follows
\* a user choice; the agent's directory lookup does not fail.
C33_DispatchedUserIsConfigured ==
    OrchCalled =>
        \A i \in 1..Len(call.calls.agent_calls) :
            /\ HasUser(config_users, call.calls.agent_calls[i].user_id)
            /\ ~ /\ call.calls.agent_calls[i].outcome.kind = "raise"
                 /\ StartsWith(call.calls.agent_calls[i].outcome.msg,
                               "Unknown user ID")

\* the third user is chosen by number and is configured
C33_Witness ==
    /\ UserAnswer
    /\ call.query = "3"
    /\ Dispatched
    /\ call.calls.agent_calls[1].user_id = "user3"
    /\ Len(config_users) = 3

C33_WitnessNotConfigured ==
    /\ UserAnswer
    /\ call.query = "3"
    /\ Len(config_users) = 2
    /\ call.calls.agent_calls = <<>>

C33_WitnessDirect ==
    /\ FreshQuery
    /\ Dispatched
    /\ call.calls.agent_calls[1].user_id = "user1"

C33_WitnessAfterAgentChoice ==
    /\ AnswerCall
    /\ AwaitsAgent(call.pending_before)
    /\ Dispatched
    /\ call.calls.agent_calls[1].user_id = "user2"

\* The answer to the platform question names both agents.
NamesBothAgents ==
    /\ Answered
    /\ AgentQuestion(call.pending_before)
    /\ Names("github", call.query)
    /\ Names("linear", call.query)

\* C35: while an agent choice is awaited, an answer containing both
\* "github" and "linear" selects GitHub, whichever name comes first: the
\* dispatch goes to the GitHub agent, or the record now awaiting the user
\* holds agent_type "github".
C35_BothNamedSelectsGitHub ==
    NamesBothAgents =>
        \/ /\ Dispatched
           /\ call.calls.agent_calls[1].agent = "github"
           /\ pending_clarification = NoneDict
        \/ /\ call.calls.agent_calls = <<>>
           /\ UserQuestion(pending_clarification)
           /\ pending_clarification.agent_type = "github"
           /\ call.body = get_clarification_message(config_users, "GitHub")

\* "linear" comes first in the answer
C35_Witness ==
    /\ NamesBothAgents
    /\ call.query = "linear or github"
    /\ Dispatched
    /\ call.calls.agent_calls[1].agent = "github"

\* "github" comes first in the answer
C35_WitnessGitHubFirst ==
    /\ NamesBothAgents
    /\ call.query = "GitHub, not Linear"
    /\ pending_clarification # NoneDict
    /\ pending_clarification.agent_type = "github"

(***************************************************************************)
(* Properties of the components on their own (UnitSpec).                   *)
(***************************************************************************)
\* C17: when the directory lookup of the user id fails during a dispatch
\* (unknown user id), the failure leaves the dispatch as an error and is
\* not turned into a normally returned string.
UnknownUserDispatch ==
    /\ call.op = "execute"
    /\ ~HasUser(config_users, call.user_id)

Identifies(u, text) ==
    \/ PatternSearch(Lower(u.display_name), Lower(text))
    \/ PatternSearch(Lower(u.username), Lower(text))

\* the configured users a text identifies, by position in the directory
Mentioned(users, text) ==
    {k \in 1..Len(users) : Identifies(users[k], text)}

\* C18: for every directory and every query that identifies exactly one
\* configured user, resolve returns that user's id with confidence >= 1.
C18_SingleUserResolved ==
    (call.op = "resolve"
        /\ Cardinality(Mentioned(config_users, call.text)) = 1) =>
        /\ \E k \in Mentioned(config_users, call.text) :
               call.result.user_id = UserId(k)
        /\ call.result.confidence >= 1

\* C19: for every query that identifies no configured user, or two or
\* more, resolve returns no user id and clarification_needed = true.
C19_NoneOrSeveralUnresolved ==
    (call.op = "resolve"
        /\ Cardinality(Mentioned(config_users, call.text)) # 1) =>
        /\ call.result.user_id = None
        /\ "clarification_needed" \in DOMAIN call.result
        /\ call.result.clarification_needed

\* C20: resolve_clarification_response returns the id of a configured user
\* whose display name or username is a case-insensitive substring of the
\* response (the first such user of the directory); the number words are
\* consulted only when no such name occurs, and give the id of a configured
\* user one of whose words occurs; when neither matches the result is none.
C20_NamesBeforeNumberWords ==
    call.op = "clarify" =>
        LET lower == Lower(call.text)
            named == {k \in 1..Len(config_users) :
                         \/ Contains(Lower(config_users[k].display_name), lower)
                         \/ Contains(Lower(config_users[k].username), lower)}
            counted == {NumberWords[i][2] :
                            i \in {j \in 1..Len(NumberWords) :
                                      /\ Contains(NumberWords[j][1], lower)
                                      /\ HasUser(config_users, NumberWords[j][2])}}
        IN  IF named # {}
            THEN \E k \in named : /\ call.result = UserId(k)
                                  /\ \A j \in named : k <= j
            ELSE IF counted # {} THEN call.result \in counted
            ELSE call.result = None

\* a response with a number word of user1 and the name of user2
C20_Witness ==
    /\ call.op = "clarify"
    /\ call.text = "1 for bob"
    /\ call.result = "user2"

\* only a number word; a number word of a user that is not configured
C20_WitnessNumberWord ==
    call.op = "clarify" /\ call.text = "first" /\ call.result = "user1"

C20_WitnessNone ==
    /\ call.op = "clarify"
    /\ call.text = "4"
    /\ call.result = None

\* the words of resolve_clarification_response for each slot of the
\* directory
SlotWords ==
    << {"1", "first", "one"}, {"2", "second", "two"}, {"3", "third", "three"},
       {"4", "fourth", "four"}, {"5", "fifth", "five"} >>

\* the response contains no configured display name or username
NamesNobody(users, text) ==
    \A k \in 1..Len(users) :
        /\ ~Contains(Lower(users[k].display_name), Lower(text))
        /\ ~Contains(Lower(users[k].username), Lower(text))

\* the slots of the directory one of whose words occurs in the response
SlotsNamed(users, text) ==
    {k \in 1..Len(users) : \E w \in SlotWords[k] : Contains(w, Lower(text))}

\* C21: for a response containing no configured name or username,
\* resolve_clarification_response gives the k-th configured user for a
\* word of slot k, only when the directory has a k-th user; a response
\* whose words name no slot of the directory resolves to none.
C21_NumberWordsArePositional ==
    (call.op = "clarify" /\ NamesNobody(config_users, call.text)) =>
        IF SlotsNamed(config_users, call.text) = {}
        THEN call.result = None
        ELSE \E k \in SlotsNamed(config_users, call.text) :
                 call.result = UserId(k)

\* "third" with three users; "3" with two users
C21_Witness ==
    /\ call.op = "clarify"
    /\ call.text = "third"
    /\ Len(config_users) = 3
    /\ call.result = "user3"

C21_WitnessNoSlot ==
    /\ call.op = "clarify"
    /\ call.text = "3"
    /\ Len(config_users) = 2
    /\ call.result = None

\* C22: get_clarification_message lists every configured display name in
\* directory order: no users, one user, "A's or B's?" for two, and a comma
\* list ending ", or Z?" for three or more.
ExpectedMessage(n, agent_name) ==
    IF n = 0 THEN "No users configured in the system."
    ELSE IF n = 1 THEN "Only Alice is configured."
    ELSE IF n = 2 THEN "Whose " \o agent_name \o " data? Alice's or Bob's?"
    ELSE IF n = 3 THEN "Whose " \o agent_name \o " data? Alice, Bob, or Carol?"
    ELSE IF n = 4
    THEN "Whose " \o agent_name \o " data? Alice, Bob, Carol, or Dave?"
    ELSE "Whose " \o agent_name \o " data? Alice, Bob, Carol, Dave, or Eve?"

C22_MessageListsEveryName ==
    call.op = "message" =>
        call.result = ExpectedMessage(Len(call.users), call.agent_name)

C22_Witness ==
    /\ call.op = "message"
    /\ Len(call.users) = 3
    /\ call.result = "Whose Linear data? Alice, Bob, or Carol?"

C22_WitnessNoUsers ==
    /\ call.op = "message"
    /\ call.users = <<>>
    /\ call.result = "No users configured in the system."

\* A dispatch to the GitHub agent whose execute did not succeed: the user
\* id is not configured, or the executor raised.
GitHubFailure ==
    /\ call.op = "execute"
    /\ call.agent_type = "github"
    /\ (~HasUser(config_users, call.user_id) \/ call.ext # "ok")

ExecutorFailure ==
    /\ GitHubFailure
    /\ HasUser(config_users, call.user_id)

GitHubOutcome == call.done.agent_calls[1].outcome

ConvertedToSoftError ==
    /\ call.done.result.kind = "return"
    /\ call.done.result.value = SoftErrorPrefix \o GitHubOutcome.msg

C27_WitnessExecutorValueError ==
    /\ ExecutorFailure
    /\ call.ext = "value_error"
    /\ GitHubOutcome.exc = "ValueError"

C27_WitnessUnknownUser ==
    /\ GitHubFailure
    /\ ~HasUser(config_users, call.user_id)
    /\ GitHubOutcome.exc = "ValueError"

\* 1 when the literal occurs in the text as a whole word, else 0
Hit(lit, text) == IF PatternSearch(lit, text) THEN 1 ELSE 0

\* How many of the four forms of user u (display name, its possessive,
\* username, its possessive) occur in the lower-cased text.
FormsMatched(u, text) ==
    Hit(Lower(u.display_name), Lower(text))
    + Hit(Lower(u.display_name) \o "'s", Lower(text))
    + Hit(Lower(u.username), Lower(text))
    + Hit(Lower(u.username) \o "'s", Lower(text))

ResolvedUser ==
    IF call.result.user_id = "user1" THEN config_users[1] ELSE config_users[2]

\* C28: when resolve returns a user, its confidence is the number of that
\* user's four patterns that match the lower-cased query, hence between 1
\* and 4; when it returns no user the confidence is 0.
C28_ConfidenceCountsPatterns ==
    call.op = "resolve" =>
        IF call.result.user_id # None
        THEN /\ call.result.confidence = FormsMatched(ResolvedUser, call.text)
             /\ call.result.confidence \in 1..4
        ELSE call.result.confidence = 0

C28_Witness ==
    /\ call.op = "resolve"
    /\ call.text = "show alice's repos"
    /\ call.result.user_id = "user1"
    /\ call.result.confidence = 4

C28_WitnessOnePattern ==
    /\ call.op = "resolve"
    /\ call.result.user_id = "user2"
    /\ call.result.confidence = 1

C28_WitnessNoUser ==
    /\ call.op = "resolve"
    /\ call.result.user_id = None
    /\ call.result.confidence = 0

(***************************************************************************)
(* Properties of get_query_service (ServiceSpec).                          *)
(***************************************************************************)
\* C34: under overlapping first requests get_query_service constructs at
\* most one QueryService, and every request is served by that one object.
C34_SingleQueryService ==
    /\ instances <= 1
    /\ \A t \in Requests, u \in Requests :
           (request[t].pc = "done" /\ request[u].pc = "done")
               => request[t].service = request[u].service

\* both conjuncts fail: two requests that have finished get_query_service
\* hold different QueryService objects
C34_ServedByDifferentInstances ==
    \E t \in Requests, u \in Requests :
        /\ request[t].pc = "done"
        /\ request[u].pc = "done"
        /\ request[t].service # request[u].service

(***************************************************************************)
(* Further properties of the components on their own (UnitSpec).           *)
(***************************************************************************)
\* The k-th configured user's display name or username occurs in the text,
\* case-insensitively, anywhere.
OccursIn(k, text) ==
    \/ Contains(Lower(config_users[k].display_name), Lower(text))
    \/ Contains(Lower(config_users[k].username), Lower(text))

SeveralUsersNamed ==
    /\ call.op = "clarify"
    /\ \E j \in 1..Len(config_users), k \in 1..Len(config_users) :
           j # k /\ OccursIn(j, call.text) /\ OccursIn(k, call.text)

\* C36: a clarification response that contains the names or usernames of
\* several configured users is resolved to the one that comes first in the
\* directory, wherever the names stand in the response; it is never left
\* unresolved.
C36_FirstInDirectoryWins ==
    SeveralUsersNamed =>
        /\ call.result # None
        /\ \E k \in 1..Len(config_users) :
               /\ call.result = UserId(k)
               /\ OccursIn(k, call.text)
               /\ \A j \in 1..(k - 1) : ~OccursIn(j, call.text)

\* Bob stands first in the response, Alice first in the directory; resolve
\* leaves the same text unresolved
C36_Witness ==
    /\ SeveralUsersNamed
    /\ call.text = "Bob, not Alice"
    /\ call.result = "user1"
    /\ resolve(config_users, call.text).user_id = None

C36_WitnessThirdUser ==
    /\ SeveralUsersNamed
    /\ call.text = "Carol and Alice"
    /\ Len(config_users) = 3
    /\ call.result = "user1"

(***************************************************************************)
(* Properties of the construction of the service (ServiceSpec).            *)
(***************************************************************************)
\* Some request was handed a QueryService, so that process_query can run.
SomeRequestServed == \E t \in Requests : request[t].service # 0

\* C37: with fewer than two configured users no UserResolver, hence no
\* Orchestrator and no QueryService, is ever constructed and no request is
\* handed a service; whenever a request is served the directory has at
\* least two users and get_clarification_message takes its "Whose ... data?"
\* branch.
C37_NoServiceBelowTwoUsers ==
    /\ Len(config_users) < 2 =>
           /\ instances = 0
           /\ query_service = 0
           /\ ~SomeRequestServed
    /\ SomeRequestServed =>
           /\ Len(config_users) >= 2
           /\ StartsWith(get_clarification_message(config_users, "GitHub"),
                         "Whose GitHub data? ")

\* one configured user: every request has failed in get_query_service
C37_Witness ==
    /\ Len(config_users) = 1
    /\ \A t \in Requests : request[t].pc = "failed"
    /\ instances = 0

C37_WitnessNoUsers ==
    /\ Len(config_users) = 0
    /\ \E t \in Requests : request[t].pc = "failed"

C37_WitnessServed ==
    /\ Len(config_users) = 2
    /\ SomeRequestServed

====
